---------------------------- MODULE Spec2Model ----------------------------
(***************************************************************************)
(* The entity/component core of OLSSurvivor (src/ecs.py): EntityManager,   *)
(* Entity, System, DrawSystem and DeletionSystem, as a state machine.      *)
(*                                                                         *)
(* Python objects are modelled by reference.  An Entity is a dict, so it   *)
(* is a sequence of (key, value) pairs in insertion order with unique      *)
(* keys; `heap` holds every Entity object the caller has constructed, and  *)
(* the manager's store `ents` is an insertion-ordered dict from integer    *)
(* keys to references into `heap`.  One action is one call made by the     *)
(* caller; `last` records that call (its arguments, what it returned or    *)
(* raised, and the calls it made on systems) and `assigned` records the    *)
(* ids handed out by add_ent, in order, and `deleted` the store keys that   *)
(* a tick has removed.                                                     *)
(***************************************************************************)
EXTENDS Integers, Sequences, FiniteSets, TLC

VARIABLES heap, ents, ent_count, systems, draw_systems, filters, last, assigned,
          deleted

vars == <<heap, ents, ent_count, systems, draw_systems, filters, last, assigned,
          deleted>>

(***************************************************************************)
(* Bounds of the model.                                                    *)
(***************************************************************************)
\* Entity objects the caller constructs.
MaxObjs == 2
\* Calls of add_ent.
MaxCount == 3
\* Length of the systems list.
MaxSystems == 2
\* Length of the draw systems list.
MaxDraw == 2

(***************************************************************************)
(* Component values.  A value is a Python object: an int, a bool, a str or *)
(* an instance of a caller's component class that defines to_string (as    *)
(* the Entity docstring asks) and inherits object.__repr__.  For an int    *)
(* `v` is the number, for a bool 0 or 1, for a str the digit it spells,    *)
(* for an instance its address; `x` is an instance's field, 0 otherwise.   *)
(***************************************************************************)
IntVal(n) == [t |-> "int", v |-> n, x |-> 0]
True == [t |-> "bool", v |-> 1, x |-> 0]
StrOf(n) == [t |-> "str", v |-> n, x |-> 0]
Obj(addr, field) == [t |-> "obj", v |-> addr, x |-> field]

Digits == <<"0", "1", "2", "3", "4", "5", "6", "7", "8", "9">>

\* str(n) of a natural number.
RECURSIVE IntStr(_)
IntStr(n) == IF n < 10 THEN Digits[n + 1]
             ELSE IntStr(n \div 10) \o Digits[(n % 10) + 1]

\* repr(value): what str() of a tuple prints for each of its elements.
Repr(val) ==
  CASE val.t = "int" -> IntStr(val.v)
    [] val.t = "bool" -> (IF val.v = 1 THEN "True" ELSE "False")
    [] val.t = "str" -> "'" \o IntStr(val.v) \o "'"
    [] val.t = "obj" -> "<Comp object at 0x" \o IntStr(val.v) \o ">"

(***************************************************************************)
(* Component keys are strings; sorted() orders them as Python orders str.  *)
(***************************************************************************)
KeyOrder == <<"a", "b", "delete", "id">>
Keys == {KeyOrder[i] : i \in 1..Len(KeyOrder)}
KeyRank(k) == CHOOSE i \in 1..Len(KeyOrder) : KeyOrder[i] = k
KeyRepr(k) == "'" \o k \o "'"

(***************************************************************************)
(* Entity(dict): a sequence of [k, v] pairs, keys unique, insertion order. *)
(***************************************************************************)
Pair(k, val) == [k |-> k, v |-> val]
KeysOf(e) == {e[i].k : i \in 1..Len(e)}
\* comp in ent
Has(e, k) == k \in KeysOf(e)
\* The place of key k in the dict (the key is present).
Get(e, k) == (CHOOSE i \in 1..Len(e) : e[i].k = k)
\* Entity.__getattr__ = dict.get, for a key that is present.
GetAttr(e, k) == e[Get(e, k)].v
\* Entity.__setattr__ = dict.__setitem__: an existing key keeps its place.
SetAttr(e, k, val) ==
  IF Has(e, k) THEN [e EXCEPT ![Get(e, k)] = Pair(k, val)]
  ELSE Append(e, Pair(k, val))
\* Entity.__delattr__ = dict.__delitem__ (the key is present).
DelAttr(e, k) == SelectSeq(e, LAMBDA p : p.k # k)

(***************************************************************************)
(* The store self.ents: a dict from id to Entity, as a sequence of         *)
(* [key, ref] entries with unique keys, in insertion order.                *)
(***************************************************************************)
Entry(k, r) == [key |-> k, ref |-> r]
StoreKeys(s) == {s[i].key : i \in 1..Len(s)}
StorePos(s, k) == CHOOSE i \in 1..Len(s) : s[i].key = k
\* self.ents[k] = r: an existing key keeps its place, a new one goes last.
StoreSet(s, k, r) ==
  IF k \in StoreKeys(s) THEN [s EXCEPT ![StorePos(s, k)] = Entry(k, r)]
  ELSE Append(s, Entry(k, r))
\* A removal that fills the hole with the store's last entry.
StoreDelSwap(s, k) ==
  LET i == StorePos(s, k)
      n == Len(s)
  IN [j \in 1..(n - 1) |-> IF j = i THEN s[n] ELSE s[j]]

\* del self.ents[k] (the key is present).
StoreDel(s, k) == SelectSeq(s, LAMBDA en : en.key # k)

(***************************************************************************)
(* What a call returns or raises.  The md5 digest of a string is modelled  *)
(* by the string it digests: equal inputs give equal digests, and the      *)
(* digests of different inputs are taken to differ.                        *)
(***************************************************************************)
None == [kind |-> "None", s |-> "", n |-> 0]
Digest(str) == [kind |-> "md5", s |-> str, n |-> 0]
Raised(err) == [kind |-> err, s |-> "", n |-> 0]

(***************************************************************************)
(* The systems a caller registers.  `cls` is the class, `criteria` its     *)
(* criteria list (as a set: step only tests membership of each), `effect`  *)
(* what its do_step_individual does to the entity it is given.             *)
(***************************************************************************)
\* System(): criteria [], do_step_individual is `pass`.
BaseSystem == [cls |-> "System", criteria |-> {}, effect |-> "pass"]
\* A subclass that only sets criteria = ['a', 'b'].
NopAB == [cls |-> "NopAB", criteria |-> {"a", "b"}, effect |-> "pass"]
\* A subclass with criteria ['a'] whose per-entity step does ent.delete = True.
Flag == [cls |-> "Flag", criteria |-> {"a"}, effect |-> "flag"]
\* A subclass with criteria ['b'] whose per-entity step changes a field of
\* the component instance ent.b in place.
Move == [cls |-> "Move", criteria |-> {"b"}, effect |-> "move"]
\* A subclass with criteria ['a', 'delete'] whose per-entity step does
\* `if 'a' in ent: del ent.a`.
Strip == [cls |-> "Strip", criteria |-> {"a", "delete"}, effect |-> "strip"]
\* DeletionSystem(mgr), mgr being this manager.
DeletionSystem == [cls |-> "DeletionSystem", criteria |-> {"delete", "id"},
                   effect |-> "pass"]
SystemObjs == {BaseSystem, NopAB, Flag, Move, Strip, DeletionSystem}

\* Subclasses with criteria ['a'] that hold the manager as self.mgr, the way
\* DeletionSystem does, and reach through it in their per-entity step:
\* Disarm does `for other in self.mgr.ents.values(): other.pop('a', None)`,
Disarm == [cls |-> "Disarm", criteria |-> {"a"}, effect |-> "disarm"]
\* Reaper does `self.mgr.ents.clear()`,
Reaper == [cls |-> "Reaper", criteria |-> {"a"}, effect |-> "clear"]
\* Spawner does `if len(self.mgr.ents) < 2: self.mgr.add_ent(Entity({'a': 1}))`.
Spawner == [cls |-> "Spawner", criteria |-> {"a"}, effect |-> "spawn"]
PassObjs == {Disarm, Reaper, Spawner}

\* Draw systems: DrawSystem() and a subclass with criteria ['a']; their
\* draw_individual reads the entity and draws.
BaseDraw == [cls |-> "DrawSystem", criteria |-> {}, effect |-> "pass"]
DrawA == [cls |-> "DrawA", criteria |-> {"a"}, effect |-> "pass"]
DrawObjs == {BaseDraw, DrawA}

\* An optional index argument: index=None, or index=i.
NoIndex == [given |-> FALSE, i |-> 0]
Index(i) == [given |-> TRUE, i |-> i]
\* `if index:` -- None and 0 are both falsy.
Truthy(index) == index.given /\ index.i # 0

\* list.insert(i, x) for 0 <= i <= len(list).
Insert(list, i, x) == SubSeq(list, 1, i) \o <<x>> \o SubSeq(list, i + 1, Len(list))

\* The filter objects a caller registers: two instances of one Filter
\* subclass, told apart by `n`.
FilterObjs == {[cls |-> "HasKey", n |-> 1], [cls |-> "HasKey", n |-> 2]}

\* An optional name argument: name=None, or name=s.
NoName == [given |-> FALSE, s |-> ""]
Name(str) == [given |-> TRUE, s |-> str]
Names == {NoName, Name(""), Name("near")}

\* The keyword arguments of a filter call: filter(filter_id, key=k).
Criteria == {[key |-> "a"], [key |-> "b"]}

\* The record of a call; each action fills in the fields it uses.
\* `after` tells whether the call made just before it was a tick.
After == IF last.op = "do_step" THEN "do_step" ELSE "other"
NoCall == [op |-> "init", after |-> "other", ret |-> None, ref |-> 0, id |-> 0,
           index |-> NoIndex, sys |-> BaseSystem, trace |-> <<>>,
           offset |-> <<0, 0>>, name |-> NoName,
           flt |-> [cls |-> "HasKey", n |-> 1], criteria |-> [key |-> "a"],
           out |-> <<>>]

\* EntityManager(): no entity constructed yet, every list and dict empty.
Init ==
  /\ heap = <<>>
  /\ ents = <<>>
  /\ ent_count = 0
  /\ systems = <<>>
  /\ draw_systems = <<>>
  /\ filters = <<>>
  /\ last = NoCall
  /\ assigned = <<>>
  /\ deleted = {}

(***************************************************************************)
(* The caller constructs an Entity from a dict of components.              *)
(***************************************************************************)
Templates(addr) ==
  { <<>>,
    <<Pair("a", IntVal(0))>>,
    <<Pair("a", StrOf(1))>>,
    <<Pair("a", IntVal(1)), Pair("b", Obj(addr, 0))>>,
    <<Pair("b", Obj(addr, 0)), Pair("a", IntVal(1))>>,
    <<Pair("delete", True)>> }

NewEntity ==
  /\ Len(heap) < MaxObjs
  /\ \E e \in Templates(Len(heap) + 1) : heap' = Append(heap, e)
  /\ last' = [NoCall EXCEPT !.op = "Entity", !.after = After,
                            !.ref = Len(heap) + 1]
  /\ UNCHANGED <<ents, ent_count, systems, draw_systems, filters, assigned, deleted>>

(***************************************************************************)
(* EntityManager.add_ent(ent)                                              *)
(***************************************************************************)
\* A manager that numbers an entity by the size of its store.
NextIdFromSize == Len(ents)

\* id = self.ent_count
NextId == ent_count

\* An add_ent that counts before it assigns.
AssignIdAfterCount(e, id) == SetAttr(e, "id", IntVal(id + 1))

\* ent.id = id
AssignId(e, id) == SetAttr(e, "id", IntVal(id))

AddEnt ==
  /\ ent_count < MaxCount
  /\ \E r \in 1..Len(heap) :
       LET id == NextId IN
       /\ heap' = [heap EXCEPT ![r] = AssignId(heap[r], id)]
       /\ ents' = StoreSet(ents, id, r)
       /\ ent_count' = ent_count + 1
       /\ assigned' = Append(assigned, id)
       /\ last' = [NoCall EXCEPT !.op = "add_ent", !.after = After,
                                 !.ref = r, !.id = id, !.ret = None]
  /\ UNCHANGED <<systems, draw_systems, filters, deleted>>

(***************************************************************************)
(* EntityManager.add_system / add_draw_system                              *)
(***************************************************************************)
AddTo(list, new, index) ==
  IF Truthy(index) THEN Insert(list, index.i, new) ELSE Append(list, new)

AddSystem ==
  /\ Len(systems) < MaxSystems
  /\ \E s \in SystemObjs, index \in {NoIndex} \cup {Index(i) : i \in 0..Len(systems)} :
       /\ systems' = AddTo(systems, s, index)
       /\ last' = [NoCall EXCEPT !.op = "add_system", !.after = After,
                                 !.sys = s, !.index = index]
  /\ UNCHANGED <<heap, ents, ent_count, draw_systems, filters, assigned, deleted>>

AddDrawSystem ==
  /\ Len(draw_systems) < MaxDraw
  /\ \E s \in DrawObjs, index \in {NoIndex} \cup {Index(i) : i \in 0..Len(draw_systems)} :
       /\ draw_systems' = AddTo(draw_systems, s, index)
       /\ last' = [NoCall EXCEPT !.op = "add_draw_system", !.after = After,
                                 !.sys = s, !.index = index]
  /\ UNCHANGED <<heap, ents, ent_count, systems, filters, assigned, deleted>>

(***************************************************************************)
(* EntityManager.add_filter(new_filter, name=None)                         *)
(***************************************************************************)
\* The key add_filter stores under: `if name:` picks the name, else
\* type(new_filter).__name__.
FilterKey(f, name) == IF name.given /\ name.s # "" THEN name.s ELSE f.cls

\* self.filters[key] = new_filter
RegistrySet(reg, key, f) ==
  [k \in DOMAIN reg \cup {key} |-> IF k = key THEN f ELSE reg[k]]

AddFilter ==
  /\ \E f \in FilterObjs, name \in Names :
       /\ filters' = RegistrySet(filters, FilterKey(f, name), f)
       /\ last' = [NoCall EXCEPT !.op = "add_filter", !.after = After,
                                 !.flt = f, !.name = name]
  /\ UNCHANGED <<heap, ents, ent_count, systems, draw_systems, assigned, deleted>>

(***************************************************************************)
(* Filter.apply, apply_individual and EntityManager.filter                 *)
(***************************************************************************)
\* What apply_individual returns: None, or the entity it was given.
NoMatch == [some |-> FALSE, ref |-> 0]
Match(r) == [some |-> TRUE, ref |-> r]

\* apply_individual(ent, criteria) of the caller's subclass HasKey:
\* return ent if criteria['key'] in ent else None
ApplyIndividual(f, h, r, criteria) ==
  IF Has(h[r], criteria.key) THEN Match(r) ELSE NoMatch

\* `if result`: None is false; an Entity is a dict, false only when empty.
ResultTruthy(h, res) == res.some /\ h[res.ref] # <<>>

\* result.id: Entity.__getattr__ = dict.get, None for a missing key.
NoneVal == [t |-> "None", v |-> 0, x |-> 0]
ResultId(h, res) ==
  IF Has(h[res.ref], "id") THEN GetAttr(h[res.ref], "id") ELSE NoneVal

\* Filter.apply(ents, criteria):
\* [result.id for result in [apply_individual(ent, criteria) for ...] if result]
Apply(f, h, s, criteria) ==
  LET results == [i \in 1..Len(s) |-> ApplyIndividual(f, h, s[i].ref, criteria)]
      kept == SelectSeq(results, LAMBDA res : ResultTruthy(h, res))
  IN [i \in 1..Len(kept) |-> ResultId(h, kept[i])]

\* A call that returned a list; the list itself is in the `out` field.
List == [kind |-> "list", s |-> "", n |-> 0]

\* The filter ids a caller asks for.
FilterIds == {"HasKey", "near", ""}

\* EntityManager.filter(filter_id, **kwargs):
\* return self.filters[filter_id].apply(self.ents, kwargs)
FilterCall ==
  /\ \E filter_id \in FilterIds, criteria \in Criteria :
       last' = IF filter_id \in DOMAIN filters
               THEN [NoCall EXCEPT
                       !.op = "filter", !.after = After,
                       !.name = Name(filter_id), !.criteria = criteria,
                       !.flt = filters[filter_id], !.ret = List,
                       !.out = Apply(filters[filter_id], heap, ents, criteria)]
               ELSE [NoCall EXCEPT
                       !.op = "filter", !.after = After,
                       !.name = Name(filter_id), !.criteria = criteria,
                       !.ret = Raised("KeyError")]
  /\ UNCHANGED <<heap, ents, ent_count, systems, draw_systems, filters, assigned, deleted>>

(***************************************************************************)
(* System.step, do_step_all, do_step_individual and DeletionSystem         *)
(***************************************************************************)
\* A selection by any() in place of all().
MatchesAny(e, criteria) == \E comp \in criteria : Has(e, comp)

\* all([comp in ent for comp in self.criteria])
Matches(e, criteria) == \A comp \in criteria : Has(e, comp)

\* [ent for ent in ents.values() if all(...)]: the matching entities, one
\* per store entry, in the store's order.
Values(s) == [i \in 1..Len(s) |-> s[i].ref]
Group(h, s, criteria) == SelectSeq(Values(s), LAMBDA r : Matches(h[r], criteria))

\* do_step_individual(ent) of a system, the part that works on the entity
\* it is given: the entity it leaves, or the error it raises.
DoStepIndividual(effect, e) ==
  CASE effect \in {"pass", "disarm", "clear", "spawn"} -> [e |-> e, err |-> ""]
    [] effect = "flag" -> [e |-> SetAttr(e, "delete", True), err |-> ""]
    [] effect = "move" ->
         IF Has(e, "b") /\ GetAttr(e, "b").t = "obj"
         THEN [e |-> SetAttr(e, "b", Obj(GetAttr(e, "b").v, 1 - GetAttr(e, "b").x)),
               err |-> ""]
         ELSE [e |-> e, err |-> "AttributeError"]
    [] effect = "strip" ->
         IF Has(e, "a") THEN [e |-> DelAttr(e, "a"), err |-> ""]
         ELSE [e |-> e, err |-> ""]

\* do_step_individual(ent) of a system, the part that reaches through
\* self.mgr: the heap, the store and the id counter it leaves.  The add_ent
\* it calls is the manager's: id = ent_count, ent.id = id, ents[id] = ent,
\* ent_count += 1.
ThroughManager(effect, h, s, c) ==
  CASE effect = "disarm" ->
         [heap |-> [x \in 1..Len(h) |->
                      IF x \in {s[i].ref : i \in 1..Len(s)} THEN DelAttr(h[x], "a")
                      ELSE h[x]],
          ents |-> s, count |-> c]
    [] effect = "clear" -> [heap |-> h, ents |-> <<>>, count |-> c]
    [] effect = "spawn" /\ Len(s) < 2 ->
         [heap |-> Append(h, AssignId(<<Pair("a", IntVal(1))>>, c)),
          ents |-> StoreSet(s, c, Len(h) + 1), count |-> c + 1]
    [] OTHER -> [heap |-> h, ents |-> s, count |-> c]

\* System.do_step_all: for ent in ents: self.do_step_individual(ent)
RECURSIVE DoStepAll(_, _, _, _, _, _)
DoStepAll(effect, h, s, c, group, calls) ==
  IF group = <<>>
  THEN [heap |-> h, ents |-> s, count |-> c, err |-> "", calls |-> calls]
  ELSE LET r == Head(group)
           res == DoStepIndividual(effect, h[r])
           m == ThroughManager(effect, [h EXCEPT ![r] = res.e], s, c)
       IN IF res.err # ""
          THEN [heap |-> h, ents |-> s, count |-> c, err |-> res.err,
                calls |-> Append(calls, r)]
          ELSE DoStepAll(effect, m.heap, m.ents, m.count, Tail(group),
                         Append(calls, r))

\* DeletionSystem.do_step_all, first loop: to_delete.append(ent.id)
ToDelete(h, group) == [i \in 1..Len(group) |-> GetAttr(h[group[i]], "id")]

\* DeletionSystem.do_step_all, second loop: del self.mgr.ents[id]
RECURSIVE DeleteAll(_, _)
DeleteAll(s, to_delete) ==
  IF to_delete = <<>> THEN [ents |-> s, err |-> ""]
  ELSE LET id == Head(to_delete) IN
       IF id.t = "int" /\ id.v \in StoreKeys(s)
       THEN DeleteAll(StoreDel(s, id.v), Tail(to_delete))
       ELSE [ents |-> s, err |-> "KeyError"]

\* A pass that selects as it goes: it walks the entities the store held
\* when the step began and tests the criteria just before each call.
RECURSIVE LazyAll(_, _, _, _, _, _)
LazyAll(sys, h, s, c, rest, calls) ==
  IF rest = <<>>
  THEN [heap |-> h, ents |-> s, count |-> c, err |-> "", calls |-> calls]
  ELSE LET r == Head(rest) IN
       IF ~ Matches(h[r], sys.criteria)
       THEN LazyAll(sys, h, s, c, Tail(rest), calls)
       ELSE LET a == DoStepAll(sys.effect, h, s, c, <<r>>, calls) IN
            IF a.err # "" THEN a
            ELSE LazyAll(sys, a.heap, a.ents, a.count, Tail(rest), a.calls)

StepLazy(sys, h, s, c) ==
  LET group == Group(h, s, sys.criteria) IN
  IF sys.cls = "DeletionSystem"
  THEN LET d == DeleteAll(s, ToDelete(h, group)) IN
       [heap |-> h, ents |-> d.ents, count |-> c, err |-> d.err,
        group |-> group, calls |-> <<>>]
  ELSE LET a == LazyAll(sys, h, s, c, Values(s), <<>>) IN
       [heap |-> a.heap, ents |-> a.ents, count |-> a.count, err |-> a.err,
        group |-> group, calls |-> a.calls]

\* system.step(self.ents) for one system, started on heap h, store s and id
\* counter c: what it leaves of them, the error it raised (if any), the
\* group it selected and the entities its per-entity step was called with.
Step(sys, h, s, c) ==
  LET group == Group(h, s, sys.criteria) IN
  IF sys.cls = "DeletionSystem"
  THEN LET d == DeleteAll(s, ToDelete(h, group)) IN
       [heap |-> h, ents |-> d.ents, count |-> c, err |-> d.err,
        group |-> group, calls |-> <<>>]
  ELSE LET a == DoStepAll(sys.effect, h, s, c, group, <<>>) IN
       [heap |-> a.heap, ents |-> a.ents, count |-> a.count, err |-> a.err,
        group |-> group, calls |-> a.calls]

\* The record of one system's step within a tick: the system, the heap,
\* store and id counter it was started on, its group and its per-entity
\* calls.
Ran(sys, h, s, c, r) ==
  [sys |-> sys, heap |-> h, ents |-> s, count |-> c, group |-> r.group,
   calls |-> r.calls]

\* for system in self.systems: system.step(self.ents)
RECURSIVE RunSystems(_, _, _, _, _)
RunSystems(list, h, s, c, trace) ==
  IF list = <<>>
  THEN [heap |-> h, ents |-> s, count |-> c, err |-> "", trace |-> trace]
  ELSE LET r == Step(Head(list), h, s, c)
           t == Append(trace, Ran(Head(list), h, s, c, r))
       IN IF r.err # ""
          THEN [heap |-> r.heap, ents |-> r.ents, count |-> r.count,
                err |-> r.err, trace |-> t]
          ELSE RunSystems(Tail(list), r.heap, r.ents, r.count, t)

(***************************************************************************)
(* The state hash of do_step                                               *)
(***************************************************************************)
\* sorted(ent.items()): the pairs in ascending key order (keys are unique,
\* so the values are never compared).
RECURSIVE InsertSorted(_, _)
InsertSorted(sorted, p) ==
  IF sorted = <<>> THEN <<p>>
  ELSE IF KeyRank(p.k) < KeyRank(Head(sorted).k) THEN <<p>> \o sorted
       ELSE <<Head(sorted)>> \o InsertSorted(Tail(sorted), p)

RECURSIVE SortedItems(_)
SortedItems(e) ==
  IF e = <<>> THEN <<>>
  ELSE InsertSorted(SortedItems(SubSeq(e, 1, Len(e) - 1)), e[Len(e)])

\* A frozen state that takes the pairs of each entity as the dict yields
\* them, unsorted.
FrozenStateUnsorted(h, s) == [i \in 1..Len(s) |-> h[s[i].ref]]

\* frozen_state: tuple(sorted(ent.items())) for each ent in self.ents.values()
FrozenState(h, s) == [i \in 1..Len(s) |-> SortedItems(h[s[i].ref])]

\* str() of a tuple whose elements print as `parts`.
RECURSIVE Join(_)
Join(parts) ==
  IF Len(parts) = 1 THEN parts[1]
  ELSE parts[1] \o ", " \o Join(Tail(parts))

TupleStr(parts) ==
  IF parts = <<>> THEN "()"
  ELSE IF Len(parts) = 1 THEN "(" \o parts[1] \o ",)"
       ELSE "(" \o Join(parts) \o ")"

PairStr(p) == TupleStr(<<KeyRepr(p.k), Repr(p.v)>>)
ItemsStr(items) == TupleStr([i \in 1..Len(items) |-> PairStr(items[i])])
\* str(frozen_state)
StateStr(frozen) == TupleStr([i \in 1..Len(frozen) |-> ItemsStr(frozen[i])])

\* A hash whose `state` list outlives the call: it digests the state of the
\* tick before together with this one's.
StateHashKept(h, s) == Digest(last.ret.s \o StateStr(FrozenState(h, s)))

\* hashlib.md5(str(frozen_state).encode('utf-8')).hexdigest().encode('utf-8')
StateHash(h, s) == Digest(StateStr(FrozenState(h, s)))

(***************************************************************************)
(* EntityManager.do_step()                                                 *)
(***************************************************************************)
\* A tick in which a system registers entities is taken only while the
\* model's bounds on objects and registrations allow them.
DoStep ==
  /\ LET r == RunSystems(systems, heap, ents, ent_count, <<>>) IN
       /\ Len(r.heap) <= MaxObjs
       /\ r.count <= MaxCount
       /\ heap' = r.heap
       /\ ents' = r.ents
       /\ ent_count' = r.count
       /\ assigned' = assigned \o [i \in 1..(r.count - ent_count) |-> ent_count + i - 1]
       /\ last' = [NoCall EXCEPT
                     !.op = "do_step",
                     !.after = After,
                     !.trace = r.trace,
                     !.ret = IF r.err = "" THEN StateHash(r.heap, r.ents)
                             ELSE Raised(r.err)]
       /\ deleted' = deleted \cup (StoreKeys(ents) \ StoreKeys(r.ents))
  /\ UNCHANGED <<systems, draw_systems, filters>>

(***************************************************************************)
(* DrawSystem.draw, draw_all, draw_individual and EntityManager.draw       *)
(***************************************************************************)
\* draw_individual(ent, offset) of a draw system that reads the entity: the
\* entity it leaves.
DrawIndividual(effect, e, offset) == e

\* DrawSystem.draw_all: for ent in ents: self.draw_individual(ent, offset)
RECURSIVE DrawAll(_, _, _, _, _)
DrawAll(effect, h, group, offset, calls) ==
  IF group = <<>> THEN [heap |-> h, calls |-> calls]
  ELSE LET r == Head(group) IN
       DrawAll(effect, [h EXCEPT ![r] = DrawIndividual(effect, h[r], offset)],
               Tail(group), offset, Append(calls, [ref |-> r, offset |-> offset]))

\* DrawSystem.draw(unfiltered_list, offset)
DrawOne(sys, h, s, offset) ==
  DrawAll(sys.effect, h, Group(h, s, sys.criteria), offset, <<>>)

\* for system in self.draw_systems: system.draw(self.ents, offset)
RECURSIVE RunDraw(_, _, _, _, _)
RunDraw(list, h, s, offset, trace) ==
  IF list = <<>> THEN [heap |-> h, ents |-> s, trace |-> trace]
  ELSE LET r == DrawOne(Head(list), h, s, offset) IN
       RunDraw(Tail(list), r.heap, s, offset,
               Append(trace, [sys |-> Head(list), heap |-> h, ents |-> s,
                              offset |-> offset, calls |-> r.calls]))

\* A draw that walks the systems of the tick instead of the draw systems.
DrawnListIsSystems == systems

\* The list EntityManager.draw iterates.
DrawnList == draw_systems

\* The offsets the caller draws with.
Offsets == {<<0, 0>>, <<3, -2>>}

Draw ==
  /\ \E offset \in Offsets :
       LET r == RunDraw(DrawnList, heap, ents, offset, <<>>) IN
       /\ heap' = r.heap
       /\ ents' = r.ents
       /\ last' = [NoCall EXCEPT !.op = "draw", !.after = After,
                                 !.offset = offset, !.trace = r.trace]
  /\ UNCHANGED <<ent_count, systems, draw_systems, filters, assigned, deleted>>

(***************************************************************************)
(* EntityManager.__getitem__(id)                                           *)
(***************************************************************************)
\* A call that returned the Entity object at heap reference r.
Returned(r) == [kind |-> "Entity", s |-> "", n |-> r]

\* return self.ents[id]
GetItem ==
  /\ \E id \in 0..MaxCount :
       last' = [NoCall EXCEPT
                  !.op = "getitem", !.after = After, !.id = id,
                  !.ret = IF id \in StoreKeys(ents)
                          THEN Returned(ents[StorePos(ents, id)].ref)
                          ELSE Raised("KeyError")]
  /\ UNCHANGED <<heap, ents, ent_count, systems, draw_systems, filters, assigned, deleted>>

(***************************************************************************)
(* EntityManager(ents=saved): a manager constructed with a store that was  *)
(* built before, such as the store of an earlier session.  Each saved      *)
(* store is one a manager can have held: every entity carries its key as   *)
(* its id.  `if not self.ents` turns None and the empty dict into {}.      *)
(***************************************************************************)
Saved ==
  { [heap |-> <<>>, ents |-> <<>>],
    [heap |-> << <<Pair("a", IntVal(0)), Pair("id", IntVal(0))>> >>,
     ents |-> <<Entry(0, 1)>>],
    [heap |-> << <<Pair("a", IntVal(0)), Pair("id", IntVal(0)), Pair("delete", True)>> >>,
     ents |-> <<Entry(0, 1)>>],
    [heap |-> << <<Pair("a", IntVal(0)), Pair("id", IntVal(1))>> >>,
     ents |-> <<Entry(1, 1)>>] }

InitSaved ==
  /\ \E sv \in Saved : heap = sv.heap /\ ents = sv.ents
  /\ ent_count = 0
  /\ systems = <<>>
  /\ draw_systems = <<>>
  /\ filters = <<>>
  /\ last = NoCall
  /\ assigned = <<>>
  /\ deleted = {}

\* The systems the caller of a saved store registers.
SavedSystemObjs == {Flag, DeletionSystem}

\* add_system, called with one of PassObjs.
AddPassSystem ==
  /\ Len(systems) < MaxSystems
  /\ \E s \in PassObjs, index \in {NoIndex} \cup {Index(i) : i \in 0..Len(systems)} :
       /\ systems' = AddTo(systems, s, index)
       /\ last' = [NoCall EXCEPT !.op = "add_system", !.after = After,
                                 !.sys = s, !.index = index]
  /\ UNCHANGED <<heap, ents, ent_count, draw_systems, filters, assigned, deleted>>

\* add_system, called with one of SavedSystemObjs.
AddSavedSystem ==
  /\ Len(systems) < MaxSystems
  /\ \E s \in SavedSystemObjs, index \in {NoIndex} \cup {Index(i) : i \in 0..Len(systems)} :
       /\ systems' = AddTo(systems, s, index)
       /\ last' = [NoCall EXCEPT !.op = "add_system", !.after = After,
                                 !.sys = s, !.index = index]
  /\ UNCHANGED <<heap, ents, ent_count, draw_systems, filters, assigned, deleted>>

Next ==
  \/ NewEntity
  \/ AddEnt
  \/ AddSystem
  \/ DoStep

\* Entities, systems and ticks.
Spec == Init /\ [][Next]_vars

NextDraw ==
  \/ NewEntity
  \/ AddEnt
  \/ AddDrawSystem
  \/ AddFilter
  \/ Draw

\* Entities, draw systems, filters and render passes.
SpecDraw == Init /\ [][NextDraw]_vars

NextFilter ==
  \/ NewEntity
  \/ AddEnt
  \/ AddFilter
  \/ FilterCall

\* Entities, filters and filter calls.
SpecFilter == Init /\ [][NextFilter]_vars

NextPass ==
  \/ NewEntity
  \/ AddEnt
  \/ AddPassSystem
  \/ DoStep

\* Entities, systems that reach through the manager during their pass, and
\* ticks.
SpecPass == Init /\ [][NextPass]_vars

NextSaved ==
  \/ NewEntity
  \/ AddEnt
  \/ AddSavedSystem
  \/ DoStep
  \/ GetItem

\* A manager constructed with a saved store: entities, flagging and
\* deletion, ticks and lookups.
SpecSaved == InitSaved /\ [][NextSaved]_vars

(***************************************************************************)
(* Properties                                                              *)
(***************************************************************************)

\* C1: the k-th registration (counting from 0) is given id k, whatever was
\* deleted in between, so ids start at 0, go up by one and never repeat.
C1_IdsSequential == \A k \in 1..Len(assigned) : assigned[k] = k - 1

\* A registration made after an entity with a smaller id was deleted.
C1_Witness ==
  /\ last.op = "add_ent"
  /\ last.id >= 1
  /\ \E k \in 0..(last.id - 1) : k \notin StoreKeys(ents)

\* C2 as stated: add_ent returns the id it assigned.
C2_ReturnsId ==
  last.op = "add_ent" => last.ret = [kind |-> "int", s |-> "", n |-> last.id]

\* C2 as amended: add_ent returns None; the entity is stored under the key
\* that is the id handed out by this call, and its id component is that id.
C2_StoredUnderId ==
  last.op = "add_ent" =>
    /\ last.ret = None
    /\ Has(heap[last.ref], "id")
    /\ LET k == GetAttr(heap[last.ref], "id") IN
         /\ k.t = "int"
         /\ k.v = assigned[Len(assigned)]
         /\ \E i \in 1..Len(ents) : ents[i] = Entry(k.v, last.ref)

\* A registration of a second entity.
C2_Witness == last.op = "add_ent" /\ last.id = 1 /\ Len(ents) = 2

\* C3: with no index the new system goes last; with an explicit index i,
\* 0 included, it is inserted at position i and the others keep their order.
C3_IndexHonoured ==
  [][/\ last'.op = "add_system" =>
          systems' = IF last'.index.given
                     THEN Insert(systems, last'.index.i, last'.sys)
                     ELSE Append(systems, last'.sys)
     /\ last'.op = "add_draw_system" =>
          draw_systems' = IF last'.index.given
                          THEN Insert(draw_systems, last'.index.i, last'.sys)
                          ELSE Append(draw_systems, last'.sys)]_vars

\* The heap and store a system's step left behind: what the next system of
\* the tick was started on, or the manager's state after the tick.
LeftHeap(i) == IF i < Len(last.trace) THEN last.trace[i + 1].heap ELSE heap
LeftEnts(i) == IF i < Len(last.trace) THEN last.trace[i + 1].ents ELSE ents

\* C4: a tick steps every system of the list exactly once, in list order,
\* and each system is started on the store the one before it left.
C4_EverySystemStepped ==
  last.op = "do_step" =>
    /\ Len(last.trace) = Len(systems)
    /\ \A i \in 1..Len(last.trace) :
         /\ last.trace[i].sys = systems[i]
         /\ LET r == Step(systems[i], last.trace[i].heap, last.trace[i].ents,
                           last.trace[i].count)
            IN LeftHeap(i) = r.heap /\ LeftEnts(i) = r.ents

\* Whether the entity of a store entry carries key k.
Carries(h, en, k) == \E j \in 1..Len(h[en.ref]) : h[en.ref][j].k = k

\* C5: the step of a DeletionSystem leaves exactly the entries whose entity
\* lacked 'delete' or lacked 'id' when the step began, in their old order,
\* under their old keys and with their old components.
C5_DeletesExactlyFlagged ==
  last.op = "do_step" =>
    \A i \in 1..Len(last.trace) :
      last.trace[i].sys.cls = "DeletionSystem" =>
        LET h == last.trace[i].heap
            s == last.trace[i].ents
        IN /\ LeftEnts(i) =
                SelectSeq(s, LAMBDA en : ~(Carries(h, en, "delete") /\ Carries(h, en, "id")))
           /\ LeftHeap(i) = h

\* C6: a system with the default step and batch step has its per-entity
\* step called once per store entry whose entity holds every key of its
\* criteria when the step begins, in store order, and for no other entry;
\* the values under the keys and any further keys play no part.
C6_StepsExactlyMatching ==
  last.op = "do_step" =>
    \A i \in 1..Len(last.trace) :
      last.trace[i].sys.cls # "DeletionSystem" =>
        LET h == last.trace[i].heap
            s == last.trace[i].ents
            hit == SelectSeq(s, LAMBDA en :
                     \A k \in last.trace[i].sys.criteria : Carries(h, en, k))
        IN last.trace[i].calls = [n \in 1..Len(hit) |-> hit[n].ref]

\* A tick in which the system with criteria {a, b} was given a store of two
\* entries and stepped one of them, whose 'a' is the falsy 0 or which has
\* more keys than the criteria, and not the other.
C6_Witness ==
  /\ last.op = "do_step"
  /\ \E i \in 1..Len(last.trace) :
       /\ last.trace[i].sys = NopAB
       /\ Len(last.trace[i].ents) = 2
       /\ Len(last.trace[i].calls) = 1
       /\ Len(last.trace[i].heap[last.trace[i].calls[1]]) > 2

\* A tick in which the system with empty criteria stepped every entry.
C6_WitnessEmptyCriteria ==
  /\ last.op = "do_step"
  /\ \E i \in 1..Len(last.trace) :
       /\ last.trace[i].sys = BaseSystem
       /\ Len(last.trace[i].ents) = 2
       /\ Len(last.trace[i].calls) = 2

\* A system that mutates nothing in a tick started on heap h and store s:
\* its per-entity step is the default `pass`, or its group is empty.
Quiet(sys, h, s) ==
  \/ sys.cls # "DeletionSystem" /\ sys.effect = "pass"
  \/ Group(h, s, sys.criteria) = <<>>

\* C7: a tick in which no system mutates anything changes neither the
\* store, the entities, the id counter, the system lists nor the filters,
\* and returns the fingerprint the tick just before it returned.
C7_Deterministic ==
  [][(/\ last'.op = "do_step"
      /\ \A i \in 1..Len(systems) : Quiet(systems[i], heap, ents))
     => /\ heap' = heap /\ ents' = ents /\ ent_count' = ent_count
        /\ systems' = systems /\ draw_systems' = draw_systems
        /\ filters' = filters
        /\ last'.ret.kind = "md5"
        /\ (last.op = "do_step" /\ last.ret.kind = "md5") => last'.ret = last.ret]_vars

\* The second of two ticks in a row over a store of two entries, with a
\* system in the list that stepped both.
C7_Witness ==
  /\ last.op = "do_step"
  /\ last.after = "do_step"
  /\ \E i \in 1..Len(last.trace) : Len(last.trace[i].calls) = 2
  /\ last.ret.kind = "md5"
  /\ Len(ents) = 2
  /\ Len(systems) >= 1
  /\ \A i \in 1..Len(systems) : Quiet(systems[i], heap, ents)

\* Stores that hold the same entries, whose entities hold the same keys in
\* the same order, and that differ in exactly one component value.
OneValueDiffers(h1, s1, h2, s2) ==
  /\ s1 = s2
  /\ \A i \in 1..Len(s1) :
       /\ Len(h1[s1[i].ref]) = Len(h2[s1[i].ref])
       /\ \A j \in 1..Len(h1[s1[i].ref]) : h1[s1[i].ref][j].k = h2[s1[i].ref][j].k
  /\ Cardinality({c \in {<<s1[i].ref, j>> : i \in 1..Len(s1), j \in 1..Len(KeyOrder)} :
                    /\ c[2] <= Len(h1[c[1]])
                    /\ h1[c[1]][c[2]].v # h2[c[1]][c[2]].v}) = 1

\* C8: two ticks whose hashed stores differ in exactly one component value
\* of one entity return different fingerprints.
C8_Sensitive ==
  [][(/\ last.op = "do_step" /\ last.ret.kind = "md5"
      /\ last'.op = "do_step" /\ last'.ret.kind = "md5"
      /\ OneValueDiffers(heap, ents, heap', ents'))
     => last'.ret # last.ret]_vars

\* C9: every store entry's entity has an id component equal to the key it
\* is stored under, no two entries carry the same id, and an id, once
\* assigned, does not change.
C9_IdIsKey ==
  [][/\ \A i \in 1..Len(ents') :
          /\ Has(heap'[ents'[i].ref], "id")
          /\ GetAttr(heap'[ents'[i].ref], "id") = IntVal(ents'[i].key)
     /\ \A i, j \in 1..Len(ents') :
          (i # j /\ Has(heap'[ents'[i].ref], "id") /\ Has(heap'[ents'[j].ref], "id"))
            => GetAttr(heap'[ents'[i].ref], "id") # GetAttr(heap'[ents'[j].ref], "id")
     /\ \A r \in 1..Len(heap) :
          Has(heap[r], "id") =>
            Has(heap'[r], "id") /\ GetAttr(heap'[r], "id") = GetAttr(heap[r], "id")]_vars

\* C10: draw(offset) changes no entity, not the store, the id counter, the
\* system lists nor the filters, and calls draw on every draw system once,
\* in list order, with the offset it was given; each draw system passes
\* that offset on for every store entry whose entity meets its criteria.
C10_DrawReadsOnly ==
  [][last'.op = "draw" =>
       /\ heap' = heap /\ ents' = ents /\ ent_count' = ent_count
       /\ systems' = systems /\ draw_systems' = draw_systems
       /\ filters' = filters
       /\ Len(last'.trace) = Len(draw_systems)
       /\ \A i \in 1..Len(draw_systems) :
            LET t == last'.trace[i]
                hit == SelectSeq(ents, LAMBDA en :
                         \A k \in draw_systems[i].criteria : Carries(heap, en, k))
            IN /\ t.sys = draw_systems[i]
               /\ t.offset = last'.offset
               /\ t.heap = heap /\ t.ents = ents
               /\ t.calls = [n \in 1..Len(hit) |->
                               [ref |-> hit[n].ref, offset |-> last'.offset]]]_vars

\* A render pass with a non-zero offset over two draw systems of different
\* classes and a store of two entries, one of which only one of them draws,
\* on a manager with two filters registered.
C10_Witness ==
  /\ last.op = "draw"
  /\ DOMAIN filters = {"HasKey", "near"}
  /\ last.offset # <<0, 0>>
  /\ Len(draw_systems) = 2
  /\ draw_systems[1] # draw_systems[2]
  /\ Len(ents) = 2
  /\ \E i, j \in 1..2 : Len(last.trace[i].calls) = 2 /\ Len(last.trace[j].calls) = 1

\* C11: a filter call that finds its filter returns the ids of exactly the
\* store entities the per-entity predicate matched, the id an entity is
\* stored under, each once, in store order, so the empty list when none
\* matches (an empty store included); it leaves the store and the entities
\* as they were.
C11_ApplyReturnsMatches ==
  [][(last'.op = "filter" /\ last'.ret = List) =>
       LET hits == SelectSeq(ents, LAMBDA en : Has(heap[en.ref], last'.criteria.key)) IN
       /\ last'.out = [i \in 1..Len(hits) |-> IntVal(hits[i].key)]
       /\ (hits = <<>> => last'.out = <<>>)
       /\ heap' = heap
       /\ ents' = ents]_vars

\* C13: a tick made while the store holds an entity with a component value
\* that has no ordering and no stable text (an instance of a class that
\* inherits object.__repr__) raises an error and returns no hash.
HoldsInstance(h, s) ==
  \E i \in 1..Len(s) : \E j \in 1..Len(h[s[i].ref]) : h[s[i].ref][j].v.t = "obj"
C13_HashFailsOnInstance ==
  (last.op = "do_step" /\ HoldsInstance(heap, ents)) => last.ret.kind # "md5"

\* C14: add_filter stores the filter under the name it is given, or under
\* the name of the filter's class when it is given none, replacing what that
\* name held and touching no other name; filter(name, ...) is answered by
\* the filter the name holds and raises KeyError for a name that holds none.
C14_RegistersUnderName ==
  [][/\ last'.op = "add_filter" =>
          LET key == IF last'.name.given THEN last'.name.s ELSE last'.flt.cls IN
          /\ DOMAIN filters' = DOMAIN filters \cup {key}
          /\ filters'[key] = last'.flt
          /\ \A k \in DOMAIN filters \ {key} : filters'[k] = filters[k]
     /\ last'.op = "filter" =>
          /\ filters' = filters
          /\ IF last'.name.s \in DOMAIN filters
             THEN /\ last'.ret = List
                  /\ last'.flt = filters[last'.name.s]
                  /\ last'.out = Apply(last'.flt, heap, ents, last'.criteria)
             ELSE last'.ret = Raised("KeyError")]_vars

\* C12: a key a tick has removed from the store is gone for good: a lookup
\* of it raises KeyError in every later state, as does a lookup of any key
\* the store does not hold; a lookup of a key the store holds returns the
\* entity stored under it; and a lookup, failed or not, changes nothing.
C12_DeletionIrreversible ==
  [][last'.op = "getitem" =>
       /\ UNCHANGED <<heap, ents, ent_count, systems, draw_systems, filters,
                      assigned, deleted>>
       /\ (last'.id \in deleted \/ last'.id \notin StoreKeys(ents))
            => last'.ret = Raised("KeyError")
       /\ (last'.id \notin deleted /\ last'.id \in StoreKeys(ents))
            => last'.ret = Returned(ents[StorePos(ents, last'.id)].ref)]_vars

\* The orders in which a dict can hold the pairs of e.
Perms(e) ==
  LET n == Len(e)
      bijections == {f \in [1..n -> 1..n] : \A i, j \in 1..n : f[i] = f[j] => i = j}
  IN {[i \in 1..n |-> e[f[i]]] : f \in bijections}

\* The heaps that hold, object by object, the same key -> value mappings as
\* h, the pairs of each entity in any order.
RECURSIVE Reorderings(_)
Reorderings(h) ==
  IF h = <<>> THEN {<<>>}
  ELSE {Append(front, e) : front \in Reorderings(SubSeq(h, 1, Len(h) - 1)),
                           e \in Perms(h[Len(h)])}

\* C15: the hash a tick returns does not depend on the order in which the
\* components of an entity were added: every store that holds the same
\* key -> value mappings in the same store order has the same hash.
C15_KeyOrderFree ==
  (last.op = "do_step" /\ last.ret.kind = "md5") =>
    \A h2 \in Reorderings(heap) : StateHash(h2, ents) = last.ret

\* A tick hashed a store of two entities, one of which holds its pairs in
\* another order than the sorted one.
C15_Witness ==
  /\ last.op = "do_step"
  /\ last.ret.kind = "md5"
  /\ Len(ents) = 2
  /\ \E i \in 1..Len(ents) : SortedItems(heap[ents[i].ref]) # heap[ents[i].ref]

\* C16: the store of a manager that was constructed empty iterates in
\* strictly ascending order of key, whatever was registered and deleted.
C16_StoreAscending ==
  \A i, j \in 1..Len(ents) : i < j => ents[i].key < ents[j].key

\* A registration into a store that still holds an entry and from which a
\* tick has removed an older one.
C16_Witness ==
  /\ last.op = "add_ent"
  /\ Len(ents) >= 2
  /\ \E d \in deleted : d < ents[1].key

\* C17: add_ent of an entity that is not in the store leaves every entry
\* the store held in its place, under its key and with its components, and
\* makes the store one entry longer, whatever store the manager was
\* constructed with.
C17_RegistrationKeepsEntries ==
  [][(last'.op = "add_ent" /\ \A i \in 1..Len(ents) : ents[i].ref # last'.ref) =>
       /\ Len(ents') = Len(ents) + 1
       /\ \A i \in 1..Len(ents) :
            /\ ents'[i] = ents[i]
            /\ heap'[ents[i].ref] = heap[ents[i].ref]]_vars

\* C18: the step of a DeletionSystem is safe in every state a tick can
\* start it in: it raises no KeyError, it removes no entry whose entity
\* lacks 'delete', and when it removes an entry it leaves no entry behind
\* whose entity carries 'delete' and 'id'.
C18_DeletionStepSafe ==
  last.op = "do_step" =>
    \A i \in 1..Len(last.trace) :
      last.trace[i].sys.cls = "DeletionSystem" =>
        LET h == last.trace[i].heap
            s == last.trace[i].ents
            left == LeftEnts(i)
            kept == {left[n] : n \in 1..Len(left)}
        IN /\ ~(i = Len(last.trace) /\ last.ret = Raised("KeyError"))
           /\ \A n \in 1..Len(s) : s[n] \notin kept => Carries(h, s[n], "delete")
           /\ Len(left) < Len(s) =>
                \A en \in kept : ~(Carries(h, en, "delete") /\ Carries(h, en, "id"))

\* The entities a store holds.
Refs(s) == {s[n].ref : n \in 1..Len(s)}

\* C19: the group of a system's pass is fixed when the pass begins: the
\* per-entity step is called for the entities that held every criteria key
\* at that moment, one call per store entry, in store order, whatever the
\* calls of the pass do to the entities and the store meanwhile; an entity
\* registered during the pass gets no call in it.
C19_GroupFixedAtBegin ==
  last.op = "do_step" =>
    \A i \in 1..Len(last.trace) :
      last.trace[i].sys.cls # "DeletionSystem" =>
        LET t == last.trace[i]
            members == SelectSeq(Values(t.ents),
                         LAMBDA r : \A k \in t.sys.criteria : Has(t.heap[r], k))
        IN /\ t.calls = members
           /\ \A r \in Refs(LeftEnts(i)) \ Refs(t.ents) :
                \A n \in 1..Len(t.calls) : t.calls[n] # r

\* A pass of Disarm over two entities: its first call took 'a', a criteria
\* key, from the second entity, which was called all the same.
C19_Witness ==
  /\ last.op = "do_step"
  /\ \E i \in 1..Len(last.trace) :
       /\ last.trace[i].sys = Disarm
       /\ Len(last.trace[i].calls) = 2
       /\ last.trace[i].calls[1] # last.trace[i].calls[2]
       /\ ~ Has(LeftHeap(i)[last.trace[i].calls[2]], "a")

\* A pass of Reaper over two entities: its first call emptied the store,
\* and the second entity was called all the same.
C19_WitnessDeleted ==
  /\ last.op = "do_step"
  /\ \E i \in 1..Len(last.trace) :
       /\ last.trace[i].sys = Reaper
       /\ Len(last.trace[i].calls) = 2
       /\ last.trace[i].calls[1] # last.trace[i].calls[2]
       /\ LeftEnts(i) = <<>>

\* A pass of Spawner registered an entity that holds 'a': the pass did not
\* call it, the pass of the next system of the tick did.
C19_WitnessRegistered ==
  /\ last.op = "do_step"
  /\ \E i \in 1..(Len(last.trace) - 1) :
       /\ last.trace[i].sys = Spawner
       /\ \E r \in Refs(LeftEnts(i)) \ Refs(last.trace[i].ents) :
            /\ \A n \in 1..Len(last.trace[i].calls) : last.trace[i].calls[n] # r
            /\ \E n \in 1..Len(last.trace[i + 1].calls) : last.trace[i + 1].calls[n] = r

\* The tick after: Spawner's own pass calls the entity it registered in
\* the tick before.
C19_WitnessNextTick ==
  /\ last.op = "do_step"
  /\ last.after = "do_step"
  /\ systems = <<Spawner>>
  /\ assigned = <<0, 1>>
  /\ Len(heap) = 2
  /\ last.trace[1].calls = <<1, 2>>

=============================================================================
